---- MODULE Spec2Model ----
(***************************************************************************)
(* url-checker: the probe endpoint (POST /api/check-url), the client       *)
(* wrapper checkUrl and the batch loop checkUrls of the UrlChecker page.    *)
(*                                                                         *)
(* Four specifications over one set of variables:                          *)
(*   SpecProbe  one call of the endpoint, end to end, at the granularity   *)
(*              of its awaits (HEAD, GET follow-up), with the 10 s timer;  *)
(*   Spec       the page: input text, Check / Cancel, the batch loop;      *)
(*   SpecLive   the page on shorter inputs, every probe call returning     *)
(*              and every pause ending;                                    *)
(*   SpecParse  the input normalizer parseUrls on typed texts.             *)
(***************************************************************************)
EXTENDS Integers, Sequences, FiniteSets, TLC

(***************************************************************************)
(* JSON values. A value carries its type as its only field name, so that   *)
(* values of different types are unequal without being compared.           *)
(***************************************************************************)
JNull == [null |-> TRUE]
JUndef == [undef |-> TRUE]
JNum(n) == [num |-> n]
JStr(s) == [str |-> s]
JBool(b) == [bool |-> b]

IsNum(v) == "num" \in DOMAIN v
IsStr(v) == "str" \in DOMAIN v

JObj(fields) == [obj |-> fields]
\* A body that is not JSON at all.
NotJson == [notjson |-> TRUE]

EmptyStr == ""

\* JavaScript truthiness of a JSON value (the `!url` of the validation).
Truthy(v) ==
    IF "undef" \in DOMAIN v \/ "null" \in DOMAIN v THEN FALSE
    ELSE IF "num" \in DOMAIN v THEN v.num # 0
    ELSE IF "str" \in DOMAIN v THEN v.str # EmptyStr
    ELSE IF "bool" \in DOMAIN v THEN v.bool
    ELSE TRUE

\* String.prototype.includes
Includes(s, sub) ==
    \E i \in 0..(Len(s) - Len(sub)) : SubSeq(s, i + 1, i + Len(sub)) = sub

\* String.prototype.trim
IsWhite(c) == c \in {" ", "\t", "\r", "\n"}
RECURSIVE TrimLeft(_)
TrimLeft(s) ==
    IF Len(s) > 0 /\ IsWhite(SubSeq(s, 1, 1)) THEN TrimLeft(SubSeq(s, 2, Len(s))) ELSE s
RECURSIVE TrimRight(_)
TrimRight(s) ==
    IF Len(s) > 0 /\ IsWhite(SubSeq(s, Len(s), Len(s)))
    THEN TrimRight(SubSeq(s, 1, Len(s) - 1)) ELSE s
Trim(s) == TrimRight(TrimLeft(s))


(***************************************************************************)
(* Bounds of the exploration, and the program's constants.                  *)
(***************************************************************************)
\* performance.now() is a fraction of a millisecond: time is counted in
\* half-milliseconds, so that Math.round has something to round.
TickHalfMs == 5001
MaxNow == 30000
\* the delay of the timer, in milliseconds
TimeoutMs == 10000

\* (mutation: the duration is truncated)
MathTrunc(h) == h \div 2

\* Math.round of a non-negative duration given in half-milliseconds.
MathRound(h) == (h + 1) \div 2

(***************************************************************************)
(* The world the endpoint probes: what a target may answer.                *)
(***************************************************************************)
TextHtml == "text/html"
CtHtml == TextHtml
CtHtmlCharset == "text/html; charset=utf-8"
CtJson == "application/json"

\* the header sets of a response; contenttype is the content-type header
NoContentType == [server |-> "nginx"]
HeaderSets ==
    {NoContentType} \cup
    {[server |-> "nginx", contenttype |-> ct] : ct \in {CtHtml, CtHtmlCharset, CtJson}}

\* Headers.get: the value, or null when the header is missing.
HeadersGet(h, name) == IF name \in DOMAIN h THEN JStr(h[name]) ELSE JNull

UrlUp == "https://up.example/"
UrlMoved == "https://www.up.example/"
UrlUnparsable == "not a url"
ProbeUrls == {UrlUp, UrlUnparsable}

HeadStatuses == {200, 301, 404, 500}
StatusTextOf(s) ==
    CASE s = 200 -> "OK"
      [] s = 301 -> "Moved Permanently"
      [] s = 404 -> "Not Found"
      [] OTHER -> "Internal Server Error"

\* A settled fetch: a Response, or a rejection with an Error.
Responses(url) ==
    {[kind |-> "response", status |-> s, statusText |-> StatusTextOf(s),
      redirected |-> r, url |-> IF r THEN UrlMoved ELSE url, headers |-> h] :
        s \in HeadStatuses, r \in BOOLEAN, h \in HeaderSets}
Rejection(name, msg) == [kind |-> "error", name |-> name, message |-> msg]
AbortError == Rejection("AbortError", "This operation was aborted")
NetworkErrors == {Rejection("TypeError", "fetch failed")}
InvalidUrlError == Rejection("TypeError", "Failed to parse URL")

\* What the network can do to a request for url, the signal left aside.
NetOutcomes(url) ==
    IF url = UrlUnparsable THEN {InvalidUrlError}
    ELSE NetworkErrors \cup Responses(url)

\* The HTML of a target, as the three patterns see it: what each captures
\* (before trimming), or no match.
NoMatch == << >>
Captures(t, d, c) == [title |-> t, description |-> d, canonical |-> c]
HtmlDocs ==
    {Captures(<<" Home ">>, <<"A page">>, <<"https://up.example/">>),
     Captures(<<"Home">>, NoMatch, NoMatch),
     Captures(NoMatch, NoMatch, NoMatch)}
\* The GET follow-up as the network would settle it: an error, a response
\* whose body cannot be read, or a response with an HTML text.
BodyReadError == Rejection("TypeError", "terminated")
GetNetOutcomes == NetworkErrors \cup {BodyReadError} \cup HtmlDocs

\* fetch(url, {signal}): a signal that is already aborted rejects the fetch
\* before anything is sent.
Fetch(signalAborted, net) == IF signalAborted THEN AbortError ELSE net
IsRejection(o) == "kind" \in DOMAIN o /\ o.kind = "error"

(***************************************************************************)
(* The endpoint: POST /api/check-url.                                      *)
(***************************************************************************)
\* `const { url } = await request.json()`: a body that is not JSON makes
\* request.json() throw, and null cannot be destructured.
JsonThrows(b) == b = NotJson
DestructureThrows(b) == b = JNull
Destructure(b) ==
    IF "obj" \in DOMAIN b /\ "url" \in DOMAIN b.obj THEN b.obj.url ELSE JUndef

\* (mutation: the `!url` test is left out)
ValidUrlAnyString(v) == IsStr(v)

\* the negation of `!url || typeof url !== "string"`
ValidUrl(v) == Truthy(v) /\ IsStr(v)

\* NextResponse.json: JSON.stringify drops the properties that are undefined.
Json(o) == [k \in {f \in DOMAIN o : o[f] # JUndef} |-> o[k]]

BadRequest(msg) == [http |-> 400, body |-> Json([error |-> JStr(msg)])]

\* `error instanceof Error ? error.message : "Unknown error"`
ErrorMessage(e) == IF IsRejection(e) THEN e.message ELSE "Unknown error"

\* (mutation: the three fields start as empty strings)
NoSeoEmptyStrings ==
    [pageTitle |-> JStr(""), metaDescription |-> JStr(""), canonical |-> JStr("")]

\* `let pageTitle = null; let metaDescription = null; let canonical = null`
NoSeo == [pageTitle |-> JNull, metaDescription |-> JNull, canonical |-> JNull]

\* the three `match` calls on the HTML and the trimmed captures
Capture(m) == IF m # NoMatch THEN JStr(Trim(m[1])) ELSE JNull
Extract(doc) ==
    [pageTitle |-> Capture(doc.title),
     metaDescription |-> Capture(doc.description),
     canonical |-> Capture(doc.canonical)]

\* the condition of the GET follow-up
ShouldScrape(resp) ==
    LET ct == HeadersGet(resp.headers, "contenttype")
    IN  /\ resp.status >= 200
        /\ resp.status < 300
        /\ IsStr(ct)
        /\ Includes(ct.str, TextHtml)

\* the completed-probe answer
SuccessReply(url, resp, rt, seo) ==
    [http |-> 200,
     body |-> Json([url |-> JStr(url),
                    status |-> JNum(resp.status),
                    statusText |-> JStr(resp.statusText),
                    responseTime |-> JNum(rt),
                    redirected |-> JBool(resp.redirected),
                    redirectUrl |-> IF resp.redirected THEN JStr(resp.url) ELSE JUndef,
                    headers |-> resp.headers,
                    pageTitle |-> seo.pageTitle,
                    metaDescription |-> seo.metaDescription,
                    canonical |-> seo.canonical])]

\* (mutation: the failure is answered as an HTTP error)
FailureReplyAsHttpError(url, rt, err) ==
    [http |-> 500, body |-> Json([error |-> JStr(ErrorMessage(err))])]

\* the inner catch: the failed-probe answer
FailureReply(url, rt, err) ==
    [http |-> 200,
     body |-> Json([url |-> JStr(url),
                    status |-> JNull,
                    statusText |-> JStr("Failed"),
                    responseTime |-> JNum(rt),
                    error |-> JStr(ErrorMessage(err))])]

\* (mutation: no catch around the follow-up, the error reaches the inner catch)
OnScrapeErrorUncaught(url, resp, rt, err) == FailureReply(url, rt, err)

\* the catch around the GET follow-up: the error is logged and dropped
OnScrapeError(url, resp, rt, err) == SuccessReply(url, resp, rt, NoSeo)

(***************************************************************************)
(* The client wrapper checkUrl.                                            *)
(***************************************************************************)
\* (mutation: the synthesised result carries no error)
CheckUrlCatchNoError(url, msg) ==
    [url |-> JStr(url), status |-> JNull, statusText |-> JStr("Failed"),
     responseTime |-> JNum(0)]

\* the catch of checkUrl: the synthesised failed result
CheckUrlCatch(url, msg) ==
    [url |-> JStr(url), status |-> JNull, statusText |-> JStr("Failed"),
     responseTime |-> JNum(0), error |-> JStr(msg)]

\* `errorData.error || "API request failed"`, as the message of the Error
ApiErrorMessage(data) ==
    IF "error" \in DOMAIN data /\ Truthy(data.error)
    THEN data.error.str ELSE "API request failed"

\* checkUrl once the endpoint's answer is there: response.ok is a 2xx.
CheckUrlResult(url, answer) ==
    IF answer.body = NotJson
    THEN CheckUrlCatch(url, "Unexpected token < in JSON")
    ELSE IF ~(answer.http >= 200 /\ answer.http < 300)
    THEN CheckUrlCatch(url, ApiErrorMessage(answer.body))
    ELSE answer.body

\* what can stand between the handler's answer and the client: nothing, or
\* the platform answering in its place
PlatformAnswers ==
    {[http |-> 500, body |-> Json([error |-> JStr("Internal Server Error")])],
     [http |-> 500, body |-> Json([message |-> JStr("oops")])],
     [http |-> 502, body |-> NotJson]}
FetchFailedMessage == "Failed to fetch"

(***************************************************************************)
(* State of one call of the endpoint.                                      *)
(***************************************************************************)
VARIABLES
    ppc,          \* where the call is: idle, head, get, replied, returned
    caller,       \* "checkUrl" (the page) or "direct" (any other client)
    body,         \* the request body as request.json() finds it
    reqUrl,       \* url, once validated
    now,          \* performance.now(), in half-milliseconds
    startTime,    \* startTime
    aborted,      \* controller.signal.aborted
    timer,        \* the timers/promises timer: none, pending, fired, cancelled
    timeoutId,    \* the promise timeoutId: none, pending, or how it rejected
    head,         \* the HEAD response
    responseTime, \* responseTime
    fetchCalls,   \* the fetch calls made so far, with the signal's state
    getSettled,   \* the GET follow-up: what the network had, how it settled, when
    reply,        \* the handler's answer
    clientResult  \* what checkUrl returned

probeVars ==
    <<ppc, caller, body, reqUrl, now, startTime, aborted, timer, timeoutId,
      head, responseTime, fetchCalls, getSettled, reply, clientResult>>

\* State of the page.
VARIABLES
    urls,        \* the text of the input box
    results,     \* the result list shown
    isChecking,  \* the checking flag
    progress,    \* the progress value
    lastToast,   \* the title of the last notification
    runs         \* the calls of checkUrls: loop position and local results

pageVars == <<urls, results, isChecking, progress, lastToast, runs>>

\* The input normalizer applied on its own.
VARIABLES
    parsed       \* the text last given to parseUrls and what it returned

None == [none |-> TRUE]

ProbeInit ==
    /\ ppc = "idle"
    /\ caller = "nobody"
    /\ body = None
    /\ reqUrl = ""
    /\ now = 0
    /\ startTime = 0
    /\ aborted = FALSE
    /\ timer = "none"
    /\ timeoutId = "none"
    /\ head = None
    /\ responseTime = 0
    /\ fetchCalls = << >>
    /\ getSettled = None
    /\ reply = None
    /\ clientResult = None

FetchCall(method, url, signalAborted, at) ==
    [method |-> method, url |-> url, signalAborted |-> signalAborted, at |-> at]

TimerDue == timer = "pending" /\ now - startTime >= 2 * TimeoutMs

\* POST from its first line to the await of the HEAD fetch.
PostEnter(b) ==
    /\ body' = b
    /\ IF JsonThrows(b) \/ DestructureThrows(b)
       THEN /\ reply' = BadRequest("Invalid request")
            /\ ppc' = "replied"
            /\ UNCHANGED <<reqUrl, startTime, aborted, timer, timeoutId, fetchCalls>>
       ELSE IF ~ValidUrl(Destructure(b))
       THEN /\ reply' = BadRequest("Invalid URL provided")
            /\ ppc' = "replied"
            /\ UNCHANGED <<reqUrl, startTime, aborted, timer, timeoutId, fetchCalls>>
       ELSE /\ reqUrl' = Destructure(b).str
            /\ startTime' = now
            /\ aborted' = FALSE
            /\ timer' = "pending"
            /\ timeoutId' = "pending"
            /\ fetchCalls' =
                   Append(fetchCalls, FetchCall("HEAD", Destructure(b).str, FALSE, now))
            /\ ppc' = "head"
            /\ UNCHANGED reply
    /\ UNCHANGED <<now, head, responseTime, getSettled, clientResult>>

\* Bodies a client other than the page can send.
DirectBodies ==
    {NotJson, JNull, JNum(7), JStr(UrlUp),
     JObj([id |-> JNum(1)]), JObj([url |-> JStr("")]), JObj([url |-> JNum(7)]),
     JObj([url |-> JNull]), JObj([url |-> JStr(UrlUp)])}

DirectCall ==
    /\ UNCHANGED <<pageVars, parsed>>
    /\ ppc = "idle"
    /\ caller' = "direct"
    /\ \E b \in DirectBodies : PostEnter(b)

\* checkUrl: fetch("/api/check-url") with body JSON.stringify({ url }).
CheckUrlCall ==
    /\ UNCHANGED <<pageVars, parsed>>
    /\ ppc = "idle"
    /\ caller' = "checkUrl"
    /\ \E u \in ProbeUrls : PostEnter(JObj([url |-> JStr(u)]))

\* checkUrl when the call does not reach the endpoint: fetch rejects.
CheckUrlCallFails ==
    /\ UNCHANGED <<pageVars, parsed>>
    /\ ppc = "idle"
    /\ caller' = "checkUrl"
    /\ \E u \in ProbeUrls :
          /\ reqUrl' = u
          /\ clientResult' = CheckUrlCatch(u, FetchFailedMessage)
    /\ ppc' = "returned"
    /\ UNCHANGED <<body, now, startTime, aborted, timer, timeoutId, head,
                   responseTime, fetchCalls, getSettled, reply>>

\* Time passes. A timer that is due fires before more time passes, and a
\* fetch whose signal was aborted when it was called rejects at once.
Tick ==
    /\ UNCHANGED <<pageVars, parsed>>
    /\ now < MaxNow
    /\ ppc \in {"idle", "head", "get"} \/ timer = "pending"
    /\ ~TimerDue
    /\ ~(ppc = "get" /\ fetchCalls[Len(fetchCalls)].signalAborted)
    /\ now' = now + TickHalfMs
    /\ UNCHANGED <<ppc, caller, body, reqUrl, startTime, aborted, timer, timeoutId,
                   head, responseTime, fetchCalls, getSettled, reply, clientResult>>

\* The timer resolves after TimeoutMs: its callback aborts the controller
\* and throws, so timeoutId rejects. A HEAD fetch still pending rejects with
\* the signal, and the inner catch answers.
TimerFires ==
    /\ UNCHANGED <<pageVars, parsed>>
    /\ TimerDue
    /\ timer' = "fired"
    /\ aborted' = TRUE
    /\ timeoutId' = "rejected: Request timeout"
    /\ IF ppc = "head"
       THEN /\ reply' = FailureReply(reqUrl, MathRound(now - startTime), AbortError)
            /\ ppc' = "replied"
       ELSE UNCHANGED <<reply, ppc>>
    /\ UNCHANGED <<caller, body, reqUrl, now, startTime, head, responseTime,
                   fetchCalls, getSettled, clientResult>>

\* `controller.abort()` after the HEAD response ("Clear the timeout"): the
\* signal is aborted, which rejects the pending timer and with it timeoutId.
ClearTimeout ==
    /\ aborted' = TRUE
    /\ timer' = "cancelled"
    /\ timeoutId' = "rejected: AbortError"

\* The HEAD fetch settles: a rejection goes to the inner catch; a response
\* is recorded and, for a 2xx HTML document, the GET follow-up is called.
HeadSettles ==
    /\ UNCHANGED <<pageVars, parsed>>
    /\ ppc = "head"
    /\ ~aborted
    /\ \E net \in NetOutcomes(reqUrl) :
          IF IsRejection(net)
          THEN /\ reply' = FailureReply(reqUrl, MathRound(now - startTime), net)
               /\ ppc' = "replied"
               /\ UNCHANGED <<aborted, timer, timeoutId, head, responseTime, fetchCalls>>
          ELSE /\ ClearTimeout
               /\ head' = net
               /\ responseTime' = MathRound(now - startTime)
               /\ IF ShouldScrape(net)
                  THEN /\ fetchCalls' =
                              Append(fetchCalls, FetchCall("GET", reqUrl, aborted', now))
                       /\ ppc' = "get"
                       /\ UNCHANGED reply
                  ELSE /\ reply' = SuccessReply(reqUrl, net,
                                                MathRound(now - startTime), NoSeo)
                       /\ ppc' = "replied"
                       /\ UNCHANGED fetchCalls
    /\ UNCHANGED <<caller, body, reqUrl, now, startTime, getSettled, clientResult>>

\* The GET follow-up settles (fetch, then text()): the captures are
\* extracted, or the error is caught; either way the handler answers.
GetSettles ==
    /\ UNCHANGED <<pageVars, parsed>>
    /\ ppc = "get"
    /\ \E net \in GetNetOutcomes :
          LET o == Fetch(fetchCalls[Len(fetchCalls)].signalAborted, net)
          IN  /\ getSettled' = [net |-> net,
                                rejected |-> IsRejection(o),
                                name |-> IF IsRejection(o) THEN o.name ELSE "",
                                at |-> now]
              /\ reply' = IF IsRejection(o)
                          THEN OnScrapeError(reqUrl, head, responseTime, o)
                          ELSE SuccessReply(reqUrl, head, responseTime, Extract(o))
    /\ ppc' = "replied"
    /\ UNCHANGED <<caller, body, reqUrl, now, startTime, aborted, timer, timeoutId,
                   head, responseTime, fetchCalls, clientResult>>

\* checkUrl receives the answer (the handler's, or the platform's).
CheckUrlReturns ==
    /\ UNCHANGED <<pageVars, parsed>>
    /\ ppc = "replied"
    /\ caller = "checkUrl"
    /\ \E answer \in {reply} \cup PlatformAnswers :
          clientResult' = CheckUrlResult(reqUrl, answer)
    /\ ppc' = "returned"
    /\ UNCHANGED <<caller, body, reqUrl, now, startTime, aborted, timer, timeoutId,
                   head, responseTime, fetchCalls, getSettled, reply>>

ProbeNext ==
    \/ DirectCall
    \/ CheckUrlCall
    \/ CheckUrlCallFails
    \/ Tick
    \/ TimerFires
    \/ HeadSettles
    \/ GetSettles
    \/ CheckUrlReturns


(***************************************************************************)
(* The page: the input normalizer.                                         *)
(***************************************************************************)
IsSep(c) == c = "," \/ c = "\n"
\* the position of the first separator of s, 0 when it has none
FirstSep(s) ==
    IF \E i \in 1..Len(s) : IsSep(SubSeq(s, i, i))
    THEN CHOOSE i \in 1..Len(s) :
            /\ IsSep(SubSeq(s, i, i))
            /\ \A j \in 1..(i - 1) : ~IsSep(SubSeq(s, j, j))
    ELSE 0
\* text.split(/[\n,]/)
RECURSIVE Split(_)
Split(s) ==
    LET n == FirstSep(s)
    IN  IF n = 0 THEN <<s>>
        ELSE <<SubSeq(s, 1, n - 1)>> \o Split(SubSeq(s, n + 1, Len(s)))

StartsWith(s, p) == Len(s) >= Len(p) /\ SubSeq(s, 1, Len(p)) = p

\* (mutation: the scheme is prepended to every piece)
WithSchemeAlways(url) == "https://" \o url

\* the scheme prefixing of parseUrls
WithScheme(url) ==
    IF ~StartsWith(url, "http://") /\ ~StartsWith(url, "https://")
    THEN "https://" \o url ELSE url

\* `new URL(url)` for the strings WithScheme yields: after the scheme and
\* any further slashes comes the authority, up to the next "/", "?" or "#",
\* the host ending at a ":" and the port following it; the constructor
\* throws when the host is empty or holds a forbidden character, or the
\* port is not a number. (Credentials, IP addresses and the range of the
\* port are left out: the explored texts have none.)
ForbiddenHostChars == {" ", "<", ">", "^", "|", "%", "[", "]"}
RECURSIVE SkipSlashes(_)
SkipSlashes(s) ==
    IF Len(s) > 0 /\ SubSeq(s, 1, 1) \in {"/", "\\"}
    THEN SkipSlashes(SubSeq(s, 2, Len(s))) ELSE s
RECURSIVE Authority(_)
Authority(s) ==
    IF Len(s) = 0 \/ SubSeq(s, 1, 1) \in {"/", "?", "#", "\\"} THEN ""
    ELSE SubSeq(s, 1, 1) \o Authority(SubSeq(s, 2, Len(s)))
AfterScheme(url) ==
    IF StartsWith(url, "https://") THEN SubSeq(url, 9, Len(url))
    ELSE SubSeq(url, 8, Len(url))
Digits == {"0", "1", "2", "3", "4", "5", "6", "7", "8", "9"}
RECURSIVE Host(_)
Host(auth) ==
    IF Len(auth) = 0 \/ SubSeq(auth, 1, 1) = ":" THEN ""
    ELSE SubSeq(auth, 1, 1) \o Host(SubSeq(auth, 2, Len(auth)))
\* what follows the ":" of the authority
Port(auth) == SubSeq(auth, Len(Host(auth)) + 2, Len(auth))
validateUrl(url) ==
    LET auth == Authority(SkipSlashes(AfterScheme(url)))
        host == Host(auth)
        port == Port(auth)
    IN  /\ Len(host) > 0
        /\ \A i \in 1..Len(host) : SubSeq(host, i, i) \notin ForbiddenHostChars
        /\ \A i \in 1..Len(port) : SubSeq(port, i, i) \in Digits

NonEmpty(s) == Len(s) > 0

parseUrls(text) ==
    LET pieces == Split(text)
        trimmed == [i \in 1..Len(pieces) |-> Trim(pieces[i])]
        kept == SelectSeq(trimmed, NonEmpty)
        schemed == [i \in 1..Len(kept) |-> WithScheme(kept[i])]
    IN  SelectSeq(schemed, validateUrl)

\* The texts given to the normalizer on its own: up to MaxTokens of these
\* tokens, typed one after another.
MaxTokens == 4
Tokens == {"a.b", ",", "\n", " ", "/", "http://", "https://"}
RECURSIVE TextsOf(_)
TextsOf(n) ==
    IF n = 0 THEN {""}
    ELSE TextsOf(n - 1) \cup {t \o k : t \in TextsOf(n - 1), k \in Tokens}
Texts == TextsOf(MaxTokens)

\* The input box takes more text.
TypeInput ==
    /\ \E k \in Tokens : /\ (urls \o k) \in Texts
                          /\ urls' = urls \o k
    /\ UNCHANGED <<results, isChecking, progress, lastToast, runs, parsed>>
    /\ UNCHANGED probeVars

\* parseUrls is applied to the text of the input box.
Normalize ==
    /\ parsed' = [text |-> urls, urlList |-> parseUrls(urls)]
    /\ UNCHANGED <<pageVars, probeVars>>

ParseNext ==
    \/ TypeInput
    \/ Normalize

(***************************************************************************)
(* The page: what checkUrl returns for the URLs of the explored inputs.    *)
(* Each target behaves in one way for the length of the exploration.       *)
(***************************************************************************)
UrlOk == "https://up.io"
UrlGone == "http://gone.io/x"
UrlDown == "https://down.io"
UrlEdge == "https://edge.io"
UrlOffline == "https://off.io"
UrlRedirect == "https://moved.io"
UrlBroken == "https://broken.io"

HeadOf(s, h) ==
    [kind |-> "response", status |-> s, statusText |-> StatusTextOf(s),
     redirected |-> FALSE, url |-> "", headers |-> h]

\* the answer that reaches checkUrl
EndpointAnswer(url) ==
    CASE url = UrlOk ->
            SuccessReply(url, HeadOf(200, [server |-> "nginx", contenttype |-> CtHtml]),
                         120, NoSeo)
      [] url = UrlGone -> SuccessReply(url, HeadOf(404, NoContentType), 80, NoSeo)
      [] url = UrlRedirect -> SuccessReply(url, HeadOf(301, NoContentType), 45, NoSeo)
      [] url = UrlBroken -> SuccessReply(url, HeadOf(500, NoContentType), 210, NoSeo)
      [] url = UrlEdge ->
            [http |-> 500, body |-> Json([error |-> JStr("Internal Server Error")])]
      [] OTHER -> FailureReply(url, 30, Rejection("TypeError", "fetch failed"))

\* A settled promise.
Fulfilled(v) == [value |-> v]
Rejected(msg) == [reason |-> msg]
IsRejected(p) == "reason" \in DOMAIN p

\* (mutation: no catch around the call of the endpoint)
checkUrlUncaught(url) ==
    IF url = UrlOffline
    THEN Rejected(FetchFailedMessage)
    ELSE Fulfilled(CheckUrlResult(url, EndpointAnswer(url)))

\* checkUrl(url): the promise it returns. Its catch turns every failure
\* into a value, so it never rejects.
checkUrl(url) ==
    IF url = UrlOffline
    THEN Fulfilled(CheckUrlCatch(url, FetchFailedMessage))
    ELSE Fulfilled(CheckUrlResult(url, EndpointAnswer(url)))

(***************************************************************************)
(* The page: state, and the batch loop checkUrls.                          *)
(***************************************************************************)
batchSize == 10
\* the size of the long explored input: three groups, the last one partial
LongInput == 25
\* Check is pressed while earlier loops still run only when those hold at
\* most this many URLs in total
MaxOverlapUrls == 1
\* the calls of checkUrls whose locals are kept: each loop has a URL
Loops == 1..(1 + MaxOverlapUrls)

Pieces == <<"up.io", " http://gone.io/x", "down.io ", "edge.io", "off.io",
            "https://moved.io", "broken.io">>
RECURSIVE TextOf(_)
TextOf(n) ==
    IF n = 0 THEN ""
    ELSE TextOf(n - 1) \o (IF n = 1 THEN "" ELSE IF n % 2 = 0 THEN "," ELSE "\n")
                       \o Pieces[((n - 1) % Len(Pieces)) + 1]
NoUrlText == "not a url, http://"
InputTexts == {TextOf(1), TextOf(LongInput), NoUrlText}
\* the size of the input explored for termination: two groups
LiveInput == 11
LiveTexts == {TextOf(1), TextOf(LiveInput)}
\* parseUrls(urls) for the texts the input box takes
Parsed == [t \in InputTexts \cup LiveTexts |-> parseUrls(t)]
\* checkUrl(url) for the URLs of those texts
Probed == [u \in {UrlOk, UrlGone, UrlDown, UrlEdge, UrlOffline, UrlRedirect, UrlBroken}
              |-> checkUrl(u)]

NoRun == [pc |-> "none", urlList |-> << >>, i |-> 0, results |-> << >>,
          batchResults |-> << >>]

PageInit ==
    /\ urls = ""
    /\ results = << >>
    /\ isChecking = FALSE
    /\ progress = 0
    /\ lastToast = ""
    /\ runs = [r \in Loops |-> NoRun]

Min(a, b) == IF a < b THEN a ELSE b

\* urlList.slice(i, i + batchSize)
Slice(urlList, i) == SubSeq(urlList, i + 1, Min(i + batchSize, Len(urlList)))

\* (mutation: the count is reported, not its share of the total)
PercentAsCount(done, total) == done

\* Math.round((done / total) * 100)
Percent(done, total) == (2 * 100 * done + total) \div (2 * total)

Looping(run) == run.pc \in {"batch", "pause"}
Unsettled(br) == {k \in 1..Len(br) : br[k] = None}
\* the probes of a run that are in flight
InFlight(run) == IF run.pc = "batch" THEN Cardinality(Unsettled(run.batchResults)) ELSE 0

\* the sizes of the inputs of the loops still running
LoopSizes == [r \in Loops |-> IF Looping(runs[r]) THEN Len(runs[r].urlList) ELSE 0]
RECURSIVE Sum(_)
Sum(sizes) == IF sizes = << >> THEN 0 ELSE Head(sizes) + Sum(Tail(sizes))
\* the locals of a call of checkUrls go when it returns
FreeLoop == CHOOSE r \in Loops : ~Looping(runs[r]) /\ \A q \in Loops : ~Looping(runs[q]) => r <= q

\* One turn of the loop up to its await: the group is cut and every URL of
\* it is handed to checkUrl.
Dispatch(run, i) ==
    [run EXCEPT !.i = i, !.pc = "batch",
                !.batchResults = [k \in 1..Len(Slice(run.urlList, i)) |-> None]]

\* (mutation: the values are collected in the order of completion)
SettleInCompletionOrder(br, k, v) ==
    LET first == CHOOSE j \in Unsettled(br) : \A m \in Unsettled(br) : j <= m
    IN  [br EXCEPT ![first] = v]

\* Promise.all: each value goes to the position of its promise.
Settle(br, k, v) == [br EXCEPT ![k] = v]

\* The buckets of filteredResults and statusCounts.
InSuccess(r) == Truthy(r.status) /\ r.status.num >= 200 /\ r.status.num < 300
InRedirects(r) == Truthy(r.status) /\ r.status.num >= 300 /\ r.status.num < 400
\* (mutation: the bucket of the client errors has no upper end)
InClientErrorsAndAbove(r) == Truthy(r.status) /\ r.status.num >= 400
InClientErrors(r) == Truthy(r.status) /\ r.status.num >= 400 /\ r.status.num < 500
InServerErrors(r) == Truthy(r.status) /\ r.status.num >= 500
InFailed(r) == r.status = JNull
\* results.filter(...).length
statusCounts(res) ==
    [all |-> Len(res),
     success |-> Len(SelectSeq(res, InSuccess)),
     redirects |-> Len(SelectSeq(res, InRedirects)),
     clientErrors |-> Len(SelectSeq(res, InClientErrors)),
     serverErrors |-> Len(SelectSeq(res, InServerErrors)),
     failed |-> Len(SelectSeq(res, InFailed))]

\* (mutation: the await ends with the first probe that settles)
AnySettled(br) == \E k \in 1..Len(br) : br[k] # None

\* Promise.all resolves when every promise has.
AllSettled(br) == Unsettled(br) = {}

\* (mutation: the finally leaves the checking flag as it is)
FinallyKeepsFlag(checking) == [isChecking |-> checking, progress |-> 100]

\* the finally of checkUrls: setIsChecking(false), setProgress(100)
Finally(checking) == [isChecking |-> FALSE, progress |-> 100]

\* (mutation: the pause follows every group)
MoreGroupsOrLast(run) == run.i < Len(run.urlList)

\* i + batchSize < urlList.length: another group follows
MoreGroups(run) == run.i + batchSize < Len(run.urlList)

\* The input box is edited, or a file is loaded into it (both are disabled
\* while checking).
EditInput ==
    /\ ~isChecking
    /\ \E t \in InputTexts \ {urls} : urls' = t
    /\ UNCHANGED <<results, isChecking, progress, lastToast, runs>>
    /\ UNCHANGED <<probeVars, parsed>>

\* (mutation: the result list and the progress are reset before the list of
\* URLs is looked at)
CheckClearsFirst ==
    /\ ~isChecking
    /\ Len(Trim(urls)) > 0
    /\ LET urlList == Parsed[urls]
       IN  IF Len(urlList) = 0
           THEN /\ lastToast' = "No URLs found"
                /\ results' = << >>
                /\ progress' = 0
                /\ UNCHANGED <<isChecking, runs>>
           ELSE /\ Sum(LoopSizes) <= MaxOverlapUrls
                /\ isChecking' = TRUE
                /\ results' = << >>
                /\ progress' = 0
                /\ lastToast' = "URL check started"
                /\ runs' = [runs EXCEPT ![FreeLoop] =
                               Dispatch([NoRun EXCEPT !.urlList = urlList], 0)]
    /\ UNCHANGED urls
    /\ UNCHANGED <<probeVars, parsed>>

\* The same, for the texts explored for termination.
EditInputLive ==
    /\ ~isChecking
    /\ \E t \in LiveTexts \ {urls} : urls' = t
    /\ UNCHANGED <<results, isChecking, progress, lastToast, runs>>
    /\ UNCHANGED <<probeVars, parsed>>

\* The Check button (enabled when not checking and the text is not blank):
\* checkUrls up to the first await.
Check ==
    /\ ~isChecking
    /\ Len(Trim(urls)) > 0
    /\ LET urlList == Parsed[urls]
       IN  IF Len(urlList) = 0
           THEN /\ lastToast' = "No URLs found"
                /\ UNCHANGED <<results, isChecking, progress, runs>>
           ELSE /\ Sum(LoopSizes) <= MaxOverlapUrls
                /\ isChecking' = TRUE
                /\ results' = << >>
                /\ progress' = 0
                /\ lastToast' = "URL check started"
                /\ runs' = [runs EXCEPT ![FreeLoop] =
                               Dispatch([NoRun EXCEPT !.urlList = urlList], 0)]
    /\ UNCHANGED urls
    /\ UNCHANGED <<probeVars, parsed>>

\* The Cancel button (shown while checking).
Cancel ==
    /\ isChecking
    /\ isChecking' = FALSE
    /\ lastToast' = "Check cancelled"
    /\ UNCHANGED <<urls, results, progress, runs>>
    /\ UNCHANGED <<probeVars, parsed>>

\* A probe of the group in flight settles. With the last one Promise.all
\* resolves and the loop goes on: the group's results are appended and
\* shown, progress is set, and the loop pauses or ends, checkUrls
\* returning. A rejection would reject Promise.all and take the loop to its
\* catch.
ProbeSettlesOf(r) ==
    \E k \in Unsettled(runs[r].batchResults) :
        LET run == runs[r]
            p == Probed[Slice(run.urlList, run.i)[k]]
            br == Settle(run.batchResults, k, IF IsRejected(p) THEN None ELSE p.value)
            all == run.results \o br
        IN  /\ run.pc = "batch"
            /\ IF IsRejected(p)
               THEN /\ runs' = [runs EXCEPT ![r] = NoRun]
                    /\ lastToast' = "Error checking URLs"
                    /\ isChecking' = Finally(isChecking).isChecking
                    /\ progress' = Finally(isChecking).progress
                    /\ UNCHANGED results
               ELSE IF ~AllSettled(br)
               THEN /\ runs' = [runs EXCEPT ![r].batchResults = br]
                    /\ UNCHANGED <<results, isChecking, progress, lastToast>>
               ELSE IF MoreGroups(run)
               THEN /\ runs' = [runs EXCEPT ![r].results = all, ![r].pc = "pause",
                                            ![r].batchResults = << >>]
                    /\ results' = all
                    /\ progress' = Percent(Len(all), Len(run.urlList))
                    /\ UNCHANGED <<isChecking, lastToast>>
               ELSE /\ runs' = [runs EXCEPT ![r] = NoRun]
                    /\ results' = all
                    /\ lastToast' = "URL check completed"
                    /\ isChecking' = Finally(isChecking).isChecking
                    /\ progress' = Finally(isChecking).progress
            /\ UNCHANGED urls
            /\ UNCHANGED <<probeVars, parsed>>

ProbeSettles == \E r \in Loops : ProbeSettlesOf(r)

\* The pause between two groups ends: the next turn of the loop.
PauseEndsOf(r) ==
    /\ runs[r].pc = "pause"
    /\ runs' = [runs EXCEPT ![r] = Dispatch(runs[r], runs[r].i + batchSize)]
    /\ UNCHANGED <<urls, results, isChecking, progress, lastToast>>
    /\ UNCHANGED <<probeVars, parsed>>

PauseEnds == \E r \in Loops : PauseEndsOf(r)

PageNext ==
    \/ EditInput
    \/ Check
    \/ Cancel
    \/ ProbeSettles
    \/ PauseEnds

vars == <<probeVars, pageVars, parsed>>

Init ==
    /\ ProbeInit
    /\ PageInit
    /\ parsed = None

\* one call of the endpoint
SpecProbe == Init /\ [][ProbeNext]_vars

\* the page
Spec == Init /\ [][PageNext]_vars

PageNextLive ==
    \/ EditInputLive
    \/ Check
    \/ Cancel
    \/ ProbeSettles
    \/ PauseEnds

\* the page when every probe call returns and every pause ends
Fairness == \A r \in Loops : WF_vars(ProbeSettlesOf(r)) /\ WF_vars(PauseEndsOf(r))
SpecLive == Init /\ [][PageNextLive]_vars /\ Fairness

\* the input normalizer on typed texts
SpecParse == Init /\ [][ParseNext]_vars

(***************************************************************************)
(* Properties of one call of the endpoint (SpecProbe).                     *)
(***************************************************************************)
HasOneOutcome(r) ==
    LET numeric == "status" \in DOMAIN r /\ IsNum(r.status)
        null == "status" \in DOMAIN r /\ r.status = JNull
        err == "error" \in DOMAIN r
    IN  (numeric /\ ~err) \/ (null /\ err)

\* C1: every probe result, the endpoint's answer for a non-empty string url
\* and the result checkUrl returns alike, either has a numeric status and no
\* error, or a null status and an error.
C1_ExactlyOneOutcome ==
    /\ (reply # None /\ ValidUrl(Destructure(body))) => HasOneOutcome(reply.body)
    /\ clientResult # None => HasOneOutcome(clientResult)

\* checkUrl has synthesised a result after its call failed
C1_Witness ==
    /\ ppc = "returned"
    /\ reply = None
    /\ clientResult # None
    /\ clientResult.status = JNull
    /\ "error" \in DOMAIN clientResult

\* C4 (as claimed): the GET follow-up is called with a signal that the end
\* of the HEAD request's timeout has not aborted, and is aborted only once
\* its own 10 seconds have passed.
C4_IndependentTimeouts ==
    \A n \in 1..Len(fetchCalls) :
        fetchCalls[n].method = "GET" =>
            /\ ~fetchCalls[n].signalAborted
            /\ (getSettled # None /\ getSettled.name = "AbortError")
                   => getSettled.at - fetchCalls[n].at >= 2 * TimeoutMs

IsHtml(resp) ==
    /\ "contenttype" \in DOMAIN resp.headers
    /\ resp.headers.contenttype \in {CtHtml, CtHtmlCharset}
Is2xx(resp) == resp.status >= 200 /\ resp.status < 300
FullDoc == Captures(<<" Home ">>, <<"A page">>, <<"https://up.example/">>)

\* C5 (as claimed): when HEAD answered 2xx with an HTML content-type and the
\* target answers GET with a title, a description and a canonical link, the
\* result carries the three extracted values.
C5_SeoExtracted ==
    (/\ reply # None
     /\ head # None
     /\ Is2xx(head)
     /\ IsHtml(head)
     /\ getSettled # None
     /\ getSettled.net = FullDoc)
        => /\ reply.body.pageTitle = JStr("Home")
           /\ reply.body.metaDescription = JStr("A page")
           /\ reply.body.canonical = JStr("https://up.example/")

SeoUnset(r) ==
    \A f \in {"pageTitle", "metaDescription", "canonical"} :
        f \notin DOMAIN r \/ r[f] = JNull

\* C6: when the HEAD status is outside [200,300) or the content-type is not
\* HTML (or missing), and in every failed result, pageTitle, metaDescription
\* and canonical are all unset.
C6_NoSeoUnlessHtml2xx ==
    /\ (reply # None /\ reply.http = 200)
           => ((head = None \/ ~Is2xx(head) \/ ~IsHtml(head)) => SeoUnset(reply.body))
    /\ (reply # None /\ reply.http = 200 /\ reply.body.status = JNull)
           => SeoUnset(reply.body)
    /\ (clientResult # None /\ clientResult.status = JNull) => SeoUnset(clientResult)

\* a 404 with an HTML content-type has been answered
C6_Witness ==
    /\ reply # None
    /\ head # None
    /\ head.status = 404
    /\ IsHtml(head)
    /\ reply.body.status = JNum(404)
    /\ reply.body.pageTitle = JNull

NothingMatched(net) == ~IsRejection(net) /\ Extract(net) = NoSeo

\* C7: once HEAD has a response, a failure of the GET follow-up (rejection
\* of the fetch or of the body read, or no pattern matching) leaves the
\* answer with the status, status text, redirected flag and headers of the
\* HEAD response and without an error.
C7_ScrapeFailureKeepsHead ==
    (/\ reply # None
     /\ getSettled # None
     /\ (getSettled.rejected \/ NothingMatched(getSettled.net)))
        => /\ reply.http = 200
           /\ reply.body.status = JNum(head.status)
           /\ reply.body.statusText = JStr(head.statusText)
           /\ reply.body.redirected = JBool(head.redirected)
           /\ reply.body.headers = head.headers
           /\ "error" \notin DOMAIN reply.body

\* the follow-up of a redirected 200 was rejected and the handler answered
C7_Witness ==
    /\ reply # None
    /\ getSettled # None
    /\ getSettled.rejected
    /\ head.redirected
    /\ reply.body.status = JNum(200)

\* C8: for a non-empty string url, when the HEAD request fails (timer,
\* network, unparsable URL) the endpoint answers HTTP 200 with the same url,
\* a null status and an error message.
C8_HeadFailureIsData ==
    (fetchCalls # << >> /\ ppc # "head" /\ head = None)
        => /\ reply # None
           /\ reply.http = 200
           /\ reply.body.url = JStr(reqUrl)
           /\ reply.body.status = JNull
           /\ "error" \in DOMAIN reply.body
           /\ IsStr(reply.body.error)
           /\ reply.body.error.str # ""

\* the timer fired while HEAD was pending, and the handler answered
C8_Witness ==
    /\ timer = "fired"
    /\ head = None
    /\ reply # None
    /\ reply.body.status = JNull
    /\ reply.body.responseTime.num >= TimeoutMs

GoodUrl(b) ==
    /\ "obj" \in DOMAIN b
    /\ "url" \in DOMAIN b.obj
    /\ IsStr(b.obj.url)
    /\ b.obj.url.str # ""
Answered400(msg) == reply # None /\ reply.http = 400 /\ reply.body.error = JStr(msg)

\* C9 (as claimed): a body that parses as JSON with url missing, empty or
\* not a string is answered 400 "Invalid URL provided", a body that does not
\* parse is answered 400 "Invalid request", and no request goes out.
C9_BadRequests ==
    (body # None /\ ppc # "idle") =>
        /\ body = NotJson => (Answered400("Invalid request") /\ fetchCalls = << >>)
        /\ (body # NotJson /\ ~GoodUrl(body))
               => (Answered400("Invalid URL provided") /\ fetchCalls = << >>)

\* C9 (amended): as claimed, but the JSON body null is answered like a body
\* that does not parse: 400 "Invalid request".
C9_BadRequestsAmended ==
    (body # None /\ ppc # "idle") =>
        /\ body \in {NotJson, JNull}
               => (Answered400("Invalid request") /\ fetchCalls = << >>)
        /\ (body \notin {NotJson, JNull} /\ ~GoodUrl(body))
               => (Answered400("Invalid URL provided") /\ fetchCalls = << >>)

\* the body null has been answered, and nothing was fetched
C9_Witness ==
    /\ body = JNull
    /\ Answered400("Invalid request")
    /\ fetchCalls = << >>

(***************************************************************************)
(* Properties of the page (Spec).                                          *)
(***************************************************************************)
UrlsMatch(res, urlList) ==
    /\ Len(res) <= Len(urlList)
    /\ \A i \in 1..Len(res) : res[i].url = JStr(urlList[i])

\* checkUrls returns in this step
Returns(r) == Looping(runs[r]) /\ ~Looping(runs'[r])

\* the results collected so far follow the input, in the loop and in the
\* group in flight
InInputOrder ==
    \A r \in Loops :
        /\ UrlsMatch(runs[r].results, runs[r].urlList)
        /\ \A k \in 1..Len(runs[r].batchResults) :
               runs[r].batchResults[k] # None =>
                   runs[r].batchResults[k].url = JStr(runs[r].urlList[runs[r].i + k])

\* C2: whatever the order in which the probes of a group complete, the
\* results of a run follow the input order, result i being the result of
\* the i-th URL, and a run that ends shows one result per URL, in that order.
C2_OrderPreserved ==
    /\ []InInputOrder
    /\ [][\A r \in Loops : Returns(r) =>
              /\ Len(results') = Len(runs[r].urlList)
              /\ UrlsMatch(results', runs[r].urlList)]_vars

\* a run of three groups has ended and shows its results
C2_Witness ==
    /\ lastToast = "URL check completed"
    /\ Len(results) = LongInput
    /\ \A r \in Loops : ~Looping(runs[r])
    /\ \A i \in 1..LongInput : results[i].url = JStr(Parsed[TextOf(LongInput)][i])

\* C3 (as claimed): once Cancel has been pressed during a run (the run is
\* looping and the checking flag is off), the run dispatches no further
\* group and the result list shown no longer changes.
C3_CancelStopsDispatch ==
    [][\A r \in Loops :
          (Looping(runs[r]) /\ ~isChecking)
              => /\ ~(runs[r].pc = "pause" /\ runs'[r].pc = "batch")
                 /\ Len(runs'[r].results) <= runs[r].i + batchSize]_vars

FailingUrls == {UrlDown, UrlEdge, UrlOffline}
IsFailed(res) == res.status = JNull /\ "error" \in DOMAIN res

\* the failing URLs collected so far have failed results
FailuresCollected ==
    \A r \in Loops : \A i \in 1..Len(runs[r].results) :
        runs[r].urlList[i] \in FailingUrls => IsFailed(runs[r].results[i])

\* C10: a failing probe (failure reported by the endpoint, an HTTP error
\* answer, the call itself failing) becomes a failed result at its position
\* and never takes the loop to its catch: a run that ends shows a result
\* for every URL, failed for the failing URLs and with a status for the rest.
C10_FailuresAreValues ==
    /\ [](lastToast # "Error checking URLs" /\ FailuresCollected)
    /\ [][\A r \in Loops : Returns(r) =>
              \A i \in 1..Len(runs[r].urlList) :
                  /\ i <= Len(results')
                  /\ IF runs[r].urlList[i] \in FailingUrls
                     THEN IsFailed(results'[i])
                     ELSE IsNum(results'[i].status)]_vars

\* a run of three groups has ended whose third, fourth and fifth probes
\* failed: the rest of the first group and the later groups have their
\* results
C10_Witness ==
    /\ lastToast = "URL check completed"
    /\ \A r \in Loops : ~Looping(runs[r])
    /\ Len(results) > 2 * batchSize
    /\ IsFailed(results[3])
    /\ IsFailed(results[4])
    /\ IsFailed(results[5])
    /\ IsNum(results[6].status)
    /\ IsNum(results[2 * batchSize + 1].status)

\* the group in flight of a loop completes in this step
GroupDone(r) == runs[r].pc = "batch" /\ runs'[r].pc # "batch"
\* checkUrls enters its loop in this step
Starts(r) == ~Looping(runs[r]) /\ Looping(runs'[r])
\* the next turn of a loop begins in this step
NextTurn(r) == runs[r].pc = "pause" /\ runs'[r].pc = "batch"
\* p is count / total * 100 rounded to the nearest integer
IsRounded(p, count, total) ==
    /\ 2 * (100 * count - p * total) <= total
    /\ 2 * (p * total - 100 * count) <= total

\* C11: a run of n URLs dispatches its groups of 10 one after another, and
\* after the k-th group reports the count min(10 * k, n) once, as the
\* rounded percentage of n; it ends with the group that reaches n, the
\* ceil(n / 10)-th.
C11_ProgressPerGroup ==
    /\ [](\A r \in Loops : Looping(runs[r]) =>
              /\ runs[r].i % batchSize = 0
              /\ runs[r].i < Len(runs[r].urlList)
              /\ Len(runs[r].batchResults) =
                     (IF runs[r].pc = "pause" THEN 0
                      ELSE Min(batchSize, Len(runs[r].urlList) - runs[r].i)))
    /\ [][/\ \A r \in Loops :
                LET n == Len(runs[r].urlList)
                    k == (runs[r].i \div batchSize) + 1
                    count == Min(batchSize * k, n)
                IN  /\ Starts(r) => runs'[r].i = 0
                    /\ NextTurn(r) => runs'[r].i = batchSize * k
                    /\ GroupDone(r) =>
                           /\ Len(results') = count
                           /\ IsRounded(progress', count, n)
                           /\ Returns(r) <=> batchSize * k >= n
          /\ progress' # progress =>
                 \E r \in Loops : GroupDone(r) \/ Starts(r)]_vars

\* 25 URLs: the second group has completed, 20 of 25 are reported as 80
C11_Witness ==
    /\ \E r \in Loops : /\ runs[r].pc = "pause"
                        /\ Len(runs[r].urlList) = LongInput
                        /\ runs[r].i = batchSize
    /\ Len(results) = 2 * batchSize
    /\ progress = (2 * batchSize * 100) \div LongInput

(***************************************************************************)
(* Properties of the input normalizer (SpecParse).                         *)
(***************************************************************************)
\* the pieces of a text, by the places of its separators
SepAt(text) == {i \in 1..Len(text) : IsSep(SubSeq(text, i, i))}
NPieces(text) == Cardinality(SepAt(text)) + 1
\* the place of the j-th separator; 0 and Len + 1 close the text
Cut(text, j) ==
    IF j = 0 THEN 0
    ELSE IF j = NPieces(text) THEN Len(text) + 1
    ELSE CHOOSE i \in SepAt(text) : Cardinality({m \in SepAt(text) : m < i}) = j - 1
PieceAt(text, j) == SubSeq(text, Cut(text, j - 1) + 1, Cut(text, j) - 1)
\* a piece without the white space around it
Core(piece) ==
    LET black == {i \in 1..Len(piece) : ~IsWhite(SubSeq(piece, i, i))}
    IN  IF black = {} THEN ""
        ELSE SubSeq(piece, CHOOSE i \in black : \A m \in black : i <= m,
                           CHOOSE i \in black : \A m \in black : m <= i)
HasScheme(url) == StartsWith(url, "http://") \/ StartsWith(url, "https://")
Candidate(text, j) ==
    LET c == Core(PieceAt(text, j))
    IN  IF HasScheme(c) THEN c ELSE "https://" \o c
\* the pieces that are kept
Kept(text) ==
    {j \in 1..NPieces(text) :
        Core(PieceAt(text, j)) # "" /\ validateUrl(Candidate(text, j))}

\* C12: parseUrls returns, in their order and with duplicates, exactly the
\* pieces of the text (split on newline or comma, trimmed, the empty ones
\* dropped, https:// prepended to those without http:// or https://) that
\* parse as URLs; every element returned starts with http:// or https://.
C12_ParseUrls ==
    parsed # None =>
        LET text == parsed.text
            out == parsed.urlList
        IN  /\ Len(out) = Cardinality(Kept(text))
            /\ \A j \in Kept(text) :
                   out[Cardinality({m \in Kept(text) : m <= j})] = Candidate(text, j)
            /\ \A i \in 1..Len(out) : HasScheme(out[i]) /\ validateUrl(out[i])

\* a text of three pieces has been normalized: the URL given twice is
\* returned twice, with its scheme, and the empty piece is dropped
C12_Witness ==
    /\ parsed # None
    /\ NPieces(parsed.text) = 3
    /\ parsed.urlList = <<"https://a.b", "https://a.b">>

(***************************************************************************)
(* Further properties of the page (Spec).                                  *)
(***************************************************************************)
\* C13: a check of a text with no valid URL is turned down (the step that
\* puts up the notice "No URLs found") before anything is sent: no loop
\* starts and no probe is dispatched, and the result list, the progress and
\* the checking flag stay as they were.
C13_NoUrlsRejected ==
    [][/\ (lastToast' = "No URLs found" /\ lastToast' # lastToast /\ Kept(urls) = {})
              => UNCHANGED <<results, progress, isChecking, runs>>
       /\ (\E r \in Loops : Starts(r)) => Kept(urls) # {}]_vars

\* after a run has shown its results, a text without a URL has been checked
C13_Witness ==
    /\ lastToast = "No URLs found"
    /\ urls = NoUrlText
    /\ Len(results) = LongInput
    /\ progress = 100
    /\ ~isChecking
    /\ \A r \in Loops : ~Looping(runs[r])

\* in how many of the five buckets a result is
BucketsOf(r) ==
    Cardinality({b \in {"success", "redirects", "clientErrors", "serverErrors", "failed"} :
        CASE b = "success" -> InSuccess(r)
          [] b = "redirects" -> InRedirects(r)
          [] b = "clientErrors" -> InClientErrors(r)
          [] b = "serverErrors" -> InServerErrors(r)
          [] OTHER -> InFailed(r)})

\* C14: the five buckets part the results shown: each result, its status
\* null or a status code, is in exactly one bucket, and the five counts add
\* up to the count of all.
C14_BucketsPartition ==
    LET c == statusCounts(results)
    IN  /\ \A i \in 1..Len(results) :
               /\ results[i].status = JNull \/ IsNum(results[i].status)
               /\ BucketsOf(results[i]) = 1
        /\ c.success + c.redirects + c.clientErrors + c.serverErrors + c.failed = c.all

\* results are shown with every bucket filled
C14_Witness ==
    LET c == statusCounts(results)
    IN  /\ c.success > 0
        /\ c.redirects > 0
        /\ c.clientErrors > 0
        /\ c.serverErrors > 0
        /\ c.failed > 0

\* the loops of checkUrls that are executing
Executing == {r \in Loops : Looping(runs[r])}

\* C15 (as claimed): the result list and the progress have a single writer:
\* at most one loop of checkUrls is executing, and the list shown holds
\* results, in input order, of the first URLs of that run.
C15_SingleWriter ==
    /\ Cardinality(Executing) <= 1
    /\ \A r \in Executing : UrlsMatch(results, runs[r].urlList)

\* C16: the groups of a run are processed in strict sequence: while a group
\* is in flight the results of all earlier groups, failed ones included, have
\* been appended; a group ends only with the last of its probes, and the
\* next group is dispatched only after that and after the append.
C16_GroupsInSequence ==
    /\ [](\A r \in Loops :
              /\ runs[r].pc = "batch" => Len(runs[r].results) = runs[r].i
              /\ runs[r].pc = "pause" =>
                     /\ InFlight(runs[r]) = 0
                     /\ Len(runs[r].results) = runs[r].i + batchSize
              /\ \A i \in 1..Len(runs[r].results) : runs[r].results[i] # None)
    /\ [][\A r \in Loops :
              /\ GroupDone(r) => InFlight(runs[r]) = 1
              /\ runs'[r].pc = "batch" /\ runs'[r].i > 0 /\ runs'[r].i # runs[r].i
                     => /\ runs[r].pc = "pause"
                        /\ runs'[r].i = Len(runs[r].results)
                        /\ runs'[r].results = runs[r].results]_vars

\* the second group of a run is in flight, the first group's results, the
\* failed ones among them, are appended
C16_Witness ==
    \E r \in Loops :
        /\ runs[r].pc = "batch"
        /\ runs[r].i = batchSize
        /\ InFlight(runs[r]) = batchSize
        /\ Len(runs[r].results) = batchSize
        /\ IsFailed(runs[r].results[3])

\* the probes in flight from the page
RECURSIVE InFlightOf(_)
InFlightOf(rs) ==
    IF rs = {} THEN 0
    ELSE LET r == CHOOSE q \in rs : TRUE
         IN  InFlight(runs[r]) + InFlightOf(rs \ {r})

\* C17 (as claimed): whatever the user does, Cancel followed by a new check
\* included, at most 10 probes are in flight from the page.
C17_InFlightBounded == InFlightOf(Loops) <= batchSize

\* C19: a run pauses after each group but the last: after the append of
\* group k's results it pauses exactly when URLs remain, the pause ends with
\* the dispatch of group k + 1 and nothing else, and the last group is
\* followed by the end of the run, not by a pause.
C19_PauseBetweenGroups ==
    /\ [](\A r \in Loops : runs[r].pc = "pause" =>
              /\ runs[r].i + batchSize < Len(runs[r].urlList)
              /\ Len(runs[r].results) = runs[r].i + batchSize)
    /\ [][\A r \in Loops :
              /\ GroupDone(r) =>
                     /\ runs'[r].pc = "pause" <=>
                            runs[r].i + batchSize < Len(runs[r].urlList)
                     /\ runs'[r].pc # "pause" => Returns(r)
              /\ (runs[r].pc = "pause" /\ runs'[r] # runs[r]) =>
                     /\ NextTurn(r)
                     /\ runs'[r].i = runs[r].i + batchSize
                     /\ runs'[r].results = runs[r].results]_vars

\* a run of three groups pauses after its first group
C19_Witness ==
    \E r \in Loops :
        /\ runs[r].pc = "pause"
        /\ runs[r].i = 0
        /\ Len(runs[r].urlList) > 2 * batchSize
        /\ Len(runs[r].results) = batchSize

\* C20: when every probe call returns (and every pause ends), a run that
\* has started ends (no call of checkUrls loops forever: each is again and
\* again not looping), and in the step in which it ends the checking flag
\* is set to false and the progress to 100.
C20_RunTerminates ==
    /\ \A r \in Loops : []<>(~Looping(runs[r]))
    /\ [][\A r \in Loops : Returns(r) => (~isChecking' /\ progress' = 100)]_vars

\* a run of two groups, cancelled or not, has ended: the flag is off and
\* the progress is 100
C20_Witness ==
    /\ \A r \in Loops : ~Looping(runs[r])
    /\ Len(results) = LiveInput
    /\ lastToast = "URL check completed"
    /\ ~isChecking
    /\ progress = 100

(***************************************************************************)
(* Further properties of one call of the endpoint (SpecProbe).             *)
(***************************************************************************)
\* C18 (as claimed): the promise timeoutId, to which the handler attaches no
\* rejection handler and which it never awaits, does not end rejected:
\* neither when the timer is cancelled after HEAD nor when it fires.
C18_TimerNeverUnhandled == ~StartsWith(timeoutId, "rejected")

\* the handler has answered with a probe result
Reported == reply # None /\ "responseTime" \in DOMAIN reply.body
\* the follow-up has been called
GetCalled == Len(fetchCalls) > 1 /\ fetchCalls[Len(fetchCalls)].method = "GET"
\* rt is the duration h, in half-milliseconds, rounded to a millisecond
IsRoundedMs(rt, h) == h >= 0 /\ rt >= 0 /\ (2 * rt - h) \in {0, 1}

\* C21: the response time reported is not negative and measures the HEAD
\* request alone: for a completed probe it is the time from the start to the
\* arrival of the HEAD response, whatever the follow-up does after it; for
\* a failed probe it is the time from the start to the failure.
C21_ResponseTimeOfHead ==
    /\ [](Reported =>
              /\ IsNum(reply.body.responseTime)
              /\ reply.body.responseTime.num >= 0
              /\ GetCalled =>
                     IsRoundedMs(reply.body.responseTime.num,
                                 fetchCalls[Len(fetchCalls)].at - startTime))
    /\ [][/\ (reply = None /\ reply' # None /\ "responseTime" \in DOMAIN reply'.body)
                 => IF ppc = "get"
                    THEN reply'.body.responseTime = JNum(responseTime)
                    ELSE IsRoundedMs(reply'.body.responseTime.num, now - startTime)
          /\ (ppc = "head" /\ ppc' = "get")
                 => IsRoundedMs(responseTime', now - startTime)
          /\ ppc = "get" => responseTime' = responseTime]_vars

\* a probe whose HEAD response came after an odd number of half
\* milliseconds has been answered after its follow-up
C21_Witness ==
    /\ Reported
    /\ getSettled # None
    /\ (fetchCalls[Len(fetchCalls)].at - startTime) % 2 = 1
    /\ reply.body.responseTime.num > 0
    /\ reply.body.status # JNull

====
